---- MODULE Spec2Model ----
(***************************************************************************)
(* patchy: the `run` orchestration (src/src/commands/run.rs) over the git  *)
(* helpers of src/src/git.rs.  The git repository is a record of remotes,  *)
(* branches (name -> commit), HEAD and index; a commit is the sequence of  *)
(* labels of its history, so "ancestor of" is "prefix of".                 *)
(***************************************************************************)
EXTENDS Integers, Sequences, FiniteSets, TLC

VARIABLES
    pc,               \* where `run` is
    yes,              \* the --yes flag, drawn where run first reads it
    cfg,              \* the Configuration read from config.toml
    repo,             \* the git repository
    dir,              \* the files of the config directory: name -> bytes
    world,            \* what `git checkout` does to the config directory
    backed_up_files,  \* run's backups: <<[filename, contents]>>
    info,             \* the RemoteBranch of the base working branch
    previous_branch,  \* the branch checked out before the run
    temporary_branch, \* the temp branch of the overwrite
    pos,              \* index of the next item of the running loop
    log,              \* per processed item: its entry, what the environment failed,
                      \* the RemoteBranch fetched, the error, what was printed
    applied,          \* per processed patch: its name and what was printed
    failed_step,      \* the step whose error `run` returned
    faults,           \* how many subcommands the environment has failed
    prompts,          \* how many confirm prompts were shown
    pre,              \* the repository and config directory before the run
    answered,         \* what the user answered at each prompt, in order
    input,            \* an entry of the config as written: its characters
    parsed            \* what parsing the entry returned: <<>>, or <<result>>

vars == <<pc, yes, cfg, repo, dir, world, backed_up_files, info,
          previous_branch, temporary_branch, pos, log, applied,
          failed_step, faults, prompts, pre, answered, input, parsed>>

(***************************************************************************)
(* Bounds of the model.                                                    *)
(***************************************************************************)
MaxPRs == 2
MaxPatches == 2
MaxFaults == 1
MaxLen == 6

None == "none"

\* The 4 random alphanumeric characters of with_uuid, drawn from a small pool.
\* Names only collide when two draws for the same text agree, so the draws
\* that are the first for their text (the base working branch and remote, each
\* pull request's remote, the temp branch) are fixed to one element of the pool;
\* a branch item of the base repository draws from the whole pool.
Uuids == {"aaaa", "bbbb"}
FirstUuids == {"aaaa"}

LocalBranch == "patchy"
RepoName == "o/r"
RemoteBranchName == "main"
ConfigFile == "config.toml"

(***************************************************************************)
(* Values                                                                  *)
(***************************************************************************)
Ok(r) == [ok |-> TRUE, r |-> r, err |-> None, val |-> None]
OkVal(r, v) == [ok |-> TRUE, r |-> r, err |-> None, val |-> v]
Err(r, e) == [ok |-> FALSE, r |-> r, err |-> e, val |-> None]

IsPrefix(s, t) == Len(s) <= Len(t) /\ SubSeq(t, 1, Len(s)) = s

Without(f, k) == [x \in DOMAIN f \ {k} |-> f[x]]
With(f, k, v) == [x \in DOMAIN f \cup {k} |-> IF x = k THEN v ELSE f[x]]

\* utils.rs with_uuid: format!("{uuid}-{s}") with uuid the random draw u
with_uuid(u, s) == u \o "-" \o s

(***************************************************************************)
(* git subcommands, as run by git(): each returns Ok/Err and the new       *)
(* repository.  f is the set of subcommands the environment makes fail *)
(* in this call ({}: the environment fails nothing).                       *)
(***************************************************************************)
git_remote_add(r, alias, f) ==
    IF "remote_add" \in f \/ alias \in r.remotes
    THEN Err(r, "remote_add")
    ELSE Ok([r EXCEPT !.remotes = @ \cup {alias}])

git_remote_remove(r, alias, f) ==
    IF "remote_remove" \in f \/ alias \notin r.remotes
    THEN Err(r, "remote_remove")
    ELSE Ok([r EXCEPT !.remotes = @ \ {alias}])

\* git fetch <url> <upstream>:<local>; an existing <local> is only fast-forwarded,
\* and never when it is checked out
git_fetch(r, local, upstream_commit, f) ==
    IF "fetch" \in f THEN Err(r, "fetch")
    ELSE IF local \in DOMAIN r.branches
    THEN IF local /= r.head /\ IsPrefix(r.branches[local], upstream_commit)
         THEN Ok([r EXCEPT !.branches = With(@, local, upstream_commit)])
         ELSE Err(r, "fetch")
    ELSE Ok([r EXCEPT !.branches = With(@, local, upstream_commit)])

\* git branch --force <name> <commit>
git_branch_force(r, name, commit, f) ==
    IF "pin" \in f \/ name = r.head
    THEN Err(r, "pin")
    ELSE Ok([r EXCEPT !.branches = With(@, name, <<{commit}>>)])

\* git branch --delete --force <name>
git_branch_delete(r, name, f) ==
    IF "branch_delete" \in f \/ name \notin DOMAIN r.branches \/ name = r.head
    THEN Err(r, "branch_delete")
    ELSE Ok([r EXCEPT !.branches = Without(@, name)])

\* what `git rev-parse --abbrev-ref HEAD` prints when HEAD is detached
Detached == "HEAD"

\* git checkout <name>; `git checkout HEAD` switches to nothing
git_checkout(r, name, f) ==
    IF "checkout" \in f THEN Err(r, "checkout")
    ELSE IF name = Detached THEN Ok(r)
    ELSE IF name \notin DOMAIN r.branches THEN Err(r, "checkout")
    ELSE Ok([r EXCEPT !.head = name])

\* git rev-parse --abbrev-ref HEAD
git_current_branch(r, f) ==
    IF "rev_parse" \in f THEN Err(r, "rev_parse") ELSE Ok(r)

\* git rev-parse --verify <name>
git_rev_parse_verify(r, name) == name \in DOMAIN r.branches

Label(kind, name) == kind \o ":" \o name

\* the changes a commit holds: every change set of its history
Content(c) == UNION {c[k] : k \in 1..Len(c)}

\* git merge --squash <name>: stages what <name> holds and HEAD does not, and
\* commits nothing.  With changes already staged, the fast-forward case keeps
\* them staged and a true merge refuses to start.
git_merge_squash(r, name, f) ==
    IF name \notin DOMAIN r.branches \/ r.index = "conflict"
    THEN Err(r, "merge")
    ELSE IF r.index = "staged" /\ ~IsPrefix(r.branches[r.head], r.branches[name])
    THEN Err(r, "merge")
    ELSE IF "merge" \in f
    THEN Err([r EXCEPT !.index = "conflict"], "merge")
    ELSE LET changes == Content(r.branches[name]) \ Content(r.branches[r.head]) IN
         IF changes \cup r.staged = {}
         THEN Ok(r)
         ELSE Ok([r EXCEPT !.index = "staged", !.staged = @ \cup changes])

\* git reset --hard
git_reset_hard(r, f) ==
    IF "reset" \in f THEN Err(r, "reset")
    ELSE Ok([r EXCEPT !.index = "clean", !.staged = {}])

\* git add <dir>: stages the files of <dir> that differ from HEAD's
git_add(r, changed, f) ==
    IF "add" \in f THEN Err(r, "add")
    ELSE IF changed
    THEN Ok([r EXCEPT !.index = "staged", !.staged = @ \cup {"config"}])
    ELSE Ok(r)

\* git commit --message <m>: nothing to commit is an error
git_commit(r, f) ==
    IF "commit" \in f \/ r.index /= "staged"
    THEN Err(r, "commit")
    ELSE Ok([r EXCEPT !.branches = With(@, r.head, Append(r.branches[r.head], r.staged)),
                      !.index = "clean", !.staged = {}])

\* git am --keep-cr --signoff <file>: applies the patch as a commit, or stops
\* in the middle of the apply; on a dirty index it does not start
git_am(r, patch, f) ==
    IF r.index /= "clean"
    THEN Err(r, "am")
    ELSE IF "am" \in f
    THEN Err([r EXCEPT !.am = TRUE], "am")
    ELSE Ok([r EXCEPT !.branches =
                 With(@, r.head, Append(r.branches[r.head], {Label("patch", patch)}))])

\* git am --abort
git_am_abort(r, f) ==
    IF "am_abort" \in f \/ ~r.am THEN Err(r, "am_abort")
    ELSE Ok([r EXCEPT !.am = FALSE])

\* git diff --cached --quiet fails when something is staged
git_diff_cached_quiet(r) == r.index = "clean"

\* `git switch --orphan <name>` in the place of `git switch --create <name>`:
\* the new branch does not start at the current commit
git_switch_orphan(r, name, f) ==
    IF "switch" \in f \/ name \in DOMAIN r.branches
    THEN Err(r, "switch")
    ELSE Ok([r EXCEPT !.branches = With(@, name, <<>>), !.head = name])

\* git switch --create <name>
git_switch_create(r, name, f) ==
    IF "switch" \in f \/ name \in DOMAIN r.branches
    THEN Err(r, "switch")
    ELSE Ok([r EXCEPT !.branches = With(@, name, r.branches[r.head]), !.head = name])

\* git branch --move --force <old> <new>
git_branch_move_force(r, old, new, f) ==
    IF "rename" \in f \/ old \notin DOMAIN r.branches \/ (new = r.head /\ new /= old)
    THEN Err(r, "rename")
    ELSE Ok([r EXCEPT !.branches = With(Without(@, old), new, r.branches[old]),
                      !.head = IF r.head = old THEN new ELSE r.head])

(***************************************************************************)
(* The collaborators' answers: what the upstream repositories hold.        *)
(***************************************************************************)
PrHeadRef == "feat"
UpstreamHead(branch) ==
    IF branch = RemoteBranchName THEN <<{"main"}>>
    ELSE IF branch = LocalBranch THEN <<{"user"}, {"up"}>>
    ELSE <<{"main"}, {branch}>>
PrHead(pull_request) == <<{"main"}, {"pr" \o ToString(pull_request)}>>

\* utils.rs normalize_commit_msg, on the html_url of a pull request
NormalizedRepo(repo_name) == IF repo_name = RepoName THEN "o-r" ELSE repo_name
NormalizedPrUrl(repo_name, pull_request) ==
    "https---github-com-" \o NormalizedRepo(repo_name) \o "-pull-" \o ToString(pull_request)

(***************************************************************************)
(* src/src/git.rs                                                          *)
(***************************************************************************)
\* add_remote_branch without the `git branch --force` of lines 114-130: the
\* local branch stays at the fetched head
add_remote_branch_unpinned(r, remote_branch, commit, upstream_commit, f) ==
    LET a == git_remote_add(r, remote_branch.local_remote_alias, f) IN
    IF ~a.ok
    THEN LET rm == git_remote_remove(a.r, remote_branch.local_remote_alias, f) IN
         IF rm.ok THEN Err(rm.r, "remote_add") ELSE Err(rm.r, "remote_remove")
    ELSE LET ft == git_fetch(a.r, remote_branch.local_branch_name, upstream_commit, f) IN
         IF ~ft.ok THEN Err(ft.r, "fetch")
         ELSE Ok(ft.r)

add_remote_branch(r, remote_branch, commit, upstream_commit, f) ==
    LET a == git_remote_add(r, remote_branch.local_remote_alias, f) IN
    IF ~a.ok
    THEN LET rm == git_remote_remove(a.r, remote_branch.local_remote_alias, f) IN
         IF rm.ok THEN Err(rm.r, "remote_add") ELSE Err(rm.r, "remote_remove")
    ELSE LET ft == git_fetch(a.r, remote_branch.local_branch_name, upstream_commit, f) IN
         IF ~ft.ok THEN Err(ft.r, "fetch")
         ELSE IF commit /= None
         THEN LET p == git_branch_force(ft.r, remote_branch.local_branch_name, commit, f) IN
              IF p.ok THEN Ok(p.r) ELSE Err(p.r, "pin")
         ELSE Ok(ft.r)

delete_remote_and_branch(r, remote, branch, f) ==
    LET b == git_branch_delete(r, branch, f) IN
    IF ~b.ok THEN b
    ELSE git_remote_remove(b.r, remote, f)

\* checkout_from_remote that returns the checkout's error at once
checkout_from_remote_or_bail(r, branch, remote, f) ==
    LET cur == git_current_branch(r, f) IN
    IF ~cur.ok
    THEN Err(delete_remote_and_branch(r, remote, branch, f).r, "rev_parse")
    ELSE LET co == git_checkout(r, branch, f) IN
         IF ~co.ok THEN Err(co.r, "checkout")
         ELSE OkVal(co.r, r.head)

checkout_from_remote(r, branch, remote, f) ==
    LET cur == git_current_branch(r, f) IN
    IF ~cur.ok
    THEN Err(delete_remote_and_branch(r, remote, branch, f).r, "rev_parse")
    ELSE LET co == git_checkout(r, branch, f) IN
         IF ~co.ok
         THEN LET d == delete_remote_and_branch(co.r, remote, branch, f) IN
              IF d.ok THEN Err(d.r, "checkout") ELSE Err(d.r, d.err)
         ELSE OkVal(co.r, r.head)

\* merge_into_main without the `git reset --hard` of line 176
merge_into_main_no_reset(r, local_branch, f) ==
    LET m == git_merge_squash(r, local_branch, f) IN
    IF ~m.ok
    THEN Err(m.r, "merge")
    ELSE git_commit(m.r, f)

merge_into_main(r, local_branch, f) ==
    LET m == git_merge_squash(r, local_branch, f) IN
    IF ~m.ok
    THEN LET rs == git_reset_hard(m.r, f) IN
         IF rs.ok THEN Err(rs.r, "merge") ELSE Err(rs.r, "reset")
    ELSE git_commit(m.r, f)

merge_pull_request(r, remote_branch, f) ==
    LET m == merge_into_main(r, remote_branch.local_branch_name, f) IN
    IF ~m.ok THEN m
    ELSE LET has_unstaged_changes == ~git_diff_cached_quiet(m.r)
             c == IF has_unstaged_changes THEN git_commit(m.r, f) ELSE Ok(m.r)
         IN IF ~c.ok THEN c
            ELSE delete_remote_and_branch(c.r, remote_branch.local_remote_alias,
                                          remote_branch.local_branch_name, f)

RECURSIVE first_free_number(_, _, _)
first_free_number(r, branch, current) ==
    IF ~git_rev_parse_verify(r, ToString(current) \o "-" \o branch)
    THEN current
    ELSE first_free_number(r, branch, current + 1)

\* find_first_available_branch with the existence test the other way round:
\* the desired name is returned when it exists
find_first_available_branch_existing(r, branch) ==
    LET branch_exists == git_rev_parse_verify(r, branch) IN
    IF branch_exists
    THEN [tag |-> "First", name |-> branch]
    ELSE LET number == first_free_number(r, branch, 2) IN
         [tag |-> "Other", name |-> ToString(number) \o "-" \o branch]

\* find_first_available_branch with the probing started one number late
find_first_available_branch_late(r, branch) ==
    LET branch_exists == ~git_rev_parse_verify(r, branch) IN
    IF branch_exists
    THEN [tag |-> "First", name |-> branch]
    ELSE LET number == first_free_number(r, branch, 3) IN
         [tag |-> "Other", name |-> ToString(number) \o "-" \o branch]

find_first_available_branch(r, branch) ==
    LET branch_exists == ~git_rev_parse_verify(r, branch) IN
    IF branch_exists
    THEN [tag |-> "First", name |-> branch]
    ELSE LET number == first_free_number(r, branch, 2) IN
         [tag |-> "Other", name |-> ToString(number) \o "-" \o branch]

\* fetch_pull_request with custom_branch_name = None, as run calls it
fetch_pull_request(r, repo_name, pull_request, commit_hash, u, f) ==
    IF "http" \in f THEN [ok |-> FALSE, r |-> r, err |-> "http", val |-> None]
    ELSE LET branch_name == ToString(pull_request) \o "/" \o PrHeadRef
             remote_branch ==
               [local_remote_alias |->
                    with_uuid(u, NormalizedPrUrl(repo_name, pull_request)
                                   \o "-" \o ToString(pull_request)),
                upstream_branch_name |-> PrHeadRef,
                local_branch_name |-> find_first_available_branch(r, branch_name).name]
             a == add_remote_branch(r, remote_branch, commit_hash, PrHead(pull_request), f)
         IN [a EXCEPT !.val = remote_branch]

fetch_branch(r, remote, u, f) ==
    IF "http" \in f THEN [ok |-> FALSE, r |-> r, err |-> "http", val |-> None]
    ELSE LET remote_branch ==
               [local_remote_alias |-> with_uuid(u, remote.owner \o "/" \o remote.repo),
                upstream_branch_name |-> remote.branch,
                local_branch_name |-> remote.branch]
             a == add_remote_branch(r, remote_branch, remote.commit,
                                    UpstreamHead(remote.branch), f)
         IN [a EXCEPT !.val = remote_branch]

(***************************************************************************)
(* The config directory                                                    *)
(***************************************************************************)
EmptyDir == [x \in {} |-> <<>>]
FileNames == <<ConfigFile, "p1.patch", "p2.patch", "p3.patch", "notes.bin", "stale.patch">>

\* fs::read_dir: the entries of the directory
read_dir(d) == SelectSeq(FileNames, LAMBDA n : n \in DOMAIN d)

\* String::from_utf8 as fs::read_to_string applies it: only valid UTF-8 is
\* a String (the model's bytes are ASCII or the invalid byte 255)
read_to_string(d, name, f) ==
    IF "read" \in f \/ name \notin DOMAIN d \/ \E k \in 1..Len(d[name]) : d[name][k] >= 128
    THEN Err(d, "read")
    ELSE OkVal(d, d[name])

\* writeln! in the place of write!: the bytes of the String and a line feed
as_bytes_line(contents) == Append(contents, 10)

\* write!(file, "{contents}"): the bytes of the String
as_bytes(contents) == contents

\* run.rs 87-113: back up every entry of the directory, in read_dir order
RECURSIVE backup_files(_, _, _)
backup_files(config_files, d, f) ==
    IF config_files = <<>> THEN OkVal(d, <<>>)
    ELSE LET backup == read_to_string(d, Head(config_files), f) IN
         IF ~backup.ok THEN Err(d, "backup")
         ELSE LET rest == backup_files(Tail(config_files), d, f) IN
              IF ~rest.ok THEN rest
              ELSE OkVal(d, <<[filename |-> Head(config_files), contents |-> backup.val]>>
                               \o rest.val)

\* the restore that goes on with the next file after a failed one and
\* returns the error at the end
RECURSIVE restore_files_skipping(_, _, _, _, _)
restore_files_skipping(backups, d, i, fail_at, kind) ==
    IF i > Len(backups)
    THEN IF fail_at \in 1..Len(backups) THEN Err(d, "restore") ELSE Ok(d)
    ELSE IF i = fail_at
    THEN restore_files_skipping(backups, d, i + 1, fail_at, kind)
    ELSE restore_files_skipping(backups,
                                With(d, backups[i].filename, as_bytes(backups[i].contents)),
                                i + 1, fail_at, kind)

\* run.rs 278-284: write every backup back; the environment fails the
\* File::create ("create") or the write! ("write") of file number fail_at
RECURSIVE restore_files(_, _, _, _, _)
restore_files(backups, d, i, fail_at, kind) ==
    IF i > Len(backups) THEN Ok(d)
    ELSE IF i = fail_at
    THEN IF kind = "create" THEN Err(d, "restore")
         ELSE Err(With(d, backups[i].filename, <<>>), "restore")
    ELSE restore_files(backups, With(d, backups[i].filename, as_bytes(backups[i].contents)),
                       i + 1, fail_at, kind)

\* the worktree's config directory after `git checkout <working branch>`:
\* files tracked by the user's branch go, files of the upstream branch come
CheckoutBlocked(d, w) == ~w.tracked /\ DOMAIN d \cap DOMAIN w.upstream_dir /= {}
CheckoutDir(d, w) ==
    LET kept == IF w.tracked THEN EmptyDir ELSE d IN
    [n \in DOMAIN kept \cup DOMAIN w.upstream_dir |->
        IF n \in DOMAIN w.upstream_dir THEN w.upstream_dir[n] ELSE kept[n]]
\* ... and after `git checkout <previous branch>`
CheckoutBackDir(d, w, before) ==
    IF w.tracked THEN before
    ELSE [n \in DOMAIN d \ DOMAIN w.upstream_dir |-> d[n]]

(***************************************************************************)
(* Configurations and initial worlds                                       *)
(***************************************************************************)
\* pull-requests = ["1", "2 @ c2", "3", ...], cut after at most MaxPRs entries
PrEntry(k) == [number |-> k, commit |-> IF k % 2 = 0 THEN "c" \o ToString(k) ELSE None]
PrLists == {[k \in 1..n |-> PrEntry(k)] : n \in 0..MaxPRs}
\* branches = [] or one entry: a branch of the base repository, the branch
\* that is named like local-branch, the remote branch the run is based on, or
\* an entry that is no owner/repo/branch
BranchLists == {<<>>,
                <<[parts |-> <<"o", "r", "dev">>, commit |-> None]>>,
                <<[parts |-> <<"o", "r", LocalBranch>>, commit |-> None]>>,
                <<[parts |-> <<"o", "r", RemoteBranchName>>, commit |-> None]>>,
                <<[parts |-> <<"dev">>, commit |-> None]>>}
PatchName(k) == "p" \o ToString(k)
PatchLists == {[k \in 1..n |-> PatchName(k)] : n \in 0..MaxPatches}

Configs ==
    [local_branch : {LocalBranch},
     repo : {RepoName},
     remote_branch : {[name |-> RemoteBranchName, commit |-> None],
                      [name |-> RemoteBranchName, commit |-> "c0"]},
     pull_requests : PrLists,
     branches : BranchLists,
     patches : PatchLists]
    \cup
    [local_branch : {LocalBranch},
     repo : {""},
     remote_branch : {[name |-> RemoteBranchName, commit |-> None]},
     pull_requests : {<<PrEntry(1)>>},
     branches : {<<>>},
     patches : {<<>>}]

UserConfig == <<114, 61>>
UserPatch == <<43, 43>>
UpstreamConfig == <<117>>

\* the user's config directory, what their branch tracks, what upstream carries
\* in that directory, and the user's other branches
Worlds ==
    { [dir |-> (ConfigFile :> UserConfig) @@ ("p1.patch" :> UserPatch)
                 @@ ("p2.patch" :> UserPatch),
       tracked |-> TRUE, upstream_dir |-> EmptyDir, branches |-> {}],
      [dir |-> (ConfigFile :> UserConfig) @@ ("p1.patch" :> UserPatch),
       tracked |-> TRUE,
       upstream_dir |-> (ConfigFile :> UpstreamConfig) @@ ("stale.patch" :> UserPatch),
       branches |-> {"1/feat"}],
      [dir |-> (ConfigFile :> UserConfig) @@ ("p2.patch" :> UserPatch),
       tracked |-> FALSE, upstream_dir |-> ("stale.patch" :> UserPatch),
       branches |-> {"1/feat", "2-1/feat"}],
      [dir |-> (ConfigFile :> UserConfig) @@ ("notes.bin" :> <<255>>),
       tracked |-> TRUE, upstream_dir |-> EmptyDir, branches |-> {}],
      [dir |-> (ConfigFile :> <<255>>),
       tracked |-> TRUE, upstream_dir |-> EmptyDir, branches |-> {}],
      [dir |-> EmptyDir,
       tracked |-> TRUE, upstream_dir |-> EmptyDir, branches |-> {}] }

\* the run starts on local_branch or, for the configurations without pull
\* requests and patches in a repository without other branches, on a
\* detached HEAD
DetachedStart(c, w) ==
    c.pull_requests = <<>> /\ c.patches = <<>> /\ w.branches = {}

NoInfo == [local_remote_alias |-> None, upstream_branch_name |-> None,
           local_branch_name |-> None]

Init ==
    /\ pc = "read_config"
    /\ yes = None
    /\ cfg \in Configs
    /\ \E w \in Worlds, h \in {LocalBranch, Detached} :
         /\ h = Detached => DetachedStart(cfg, w)
         /\ world = [tracked |-> w.tracked, upstream_dir |-> w.upstream_dir]
         /\ dir = w.dir
         /\ repo = [remotes |-> {"origin"},
                    branches |-> [b \in {LocalBranch} \cup w.branches |-> <<{"user"}>>],
                    head |-> h, index |-> "clean", staged |-> {}, am |-> FALSE]
    /\ backed_up_files = <<>>
    /\ info = NoInfo
    /\ previous_branch = None
    /\ temporary_branch = None
    /\ pos = 1
    /\ log = <<>>
    /\ applied = <<>>
    /\ failed_step = None
    /\ faults = 0
    /\ prompts = 0
    /\ pre = [remotes |-> repo.remotes, branches |-> repo.branches, head |-> repo.head,
              dir |-> dir]
    /\ answered = <<>>
    /\ input = <<>>
    /\ parsed = <<>>

\* the environment may fail the subcommands of f
Budget(f) == faults + Cardinality(f) <= MaxFaults

Abort(step) == pc' = "Aborted" /\ failed_step' = step

\* the loop that runs after position k of the loop `loop`
AfterItems(loop, k) ==
    IF loop = "checkout" /\ Len(cfg.pull_requests) > 0 THEN "pull_requests"
    ELSE IF loop = "pull_requests" /\ k < Len(cfg.pull_requests) THEN "pull_requests"
    ELSE IF loop \in {"checkout", "pull_requests"} /\ Len(cfg.branches) > 0 THEN "branches"
    ELSE IF loop = "branches" /\ k < Len(cfg.branches) THEN "branches"
    ELSE "create_dir"

(***************************************************************************)
(* run (src/src/commands/run.rs), one action per step                      *)
(***************************************************************************)
\* commands/init.rs 13-37, called without a Confirm: a file that exists is
\* overwritten only when the user agrees at init's own prompt
default_config == <<100>>
init(d, overwrite_if_exists, f) ==
    IF ConfigFile \in DOMAIN d /\ ~overwrite_if_exists THEN Err(d, "init")
    ELSE IF "create" \in f THEN Err(d, "init")
    ELSE Ok(With(d, ConfigFile, default_config))

\* the read of the configuration without the check of lines 70-78 on repo
ReadConfigAnyRepo ==
    /\ pc = "read_config"
    /\ LET config_raw == read_to_string(dir, ConfigFile, {}) IN
       IF ~config_raw.ok
       THEN \E y \in BOOLEAN, run_init \in BOOLEAN, overwrite \in BOOLEAN,
               f \in {{}, {"create"}} :
              /\ Budget(f)
              /\ y => ~run_init
              /\ ~run_init => f = {}
              /\ (~run_init \/ ConfigFile \notin DOMAIN dir) => overwrite
              /\ yes' = (IF y THEN "yes" ELSE "no")
              /\ faults' = faults + Cardinality(f)
              /\ LET asked == IF y THEN <<>>
                              ELSE IF run_init /\ ConfigFile \in DOMAIN dir
                              THEN <<run_init, overwrite>>
                              ELSE <<run_init>>
                     i == IF run_init THEN init(dir, overwrite, f) ELSE Ok(dir)
                 IN /\ answered' = answered \o asked
                    /\ prompts' = prompts + Len(asked)
                    /\ dir' = i.r
                    /\ IF i.ok THEN pc' = "Done" /\ UNCHANGED failed_step
                       ELSE Abort("init")
       ELSE /\ UNCHANGED <<yes, prompts, dir, faults, answered>>
            /\ pc' = "backup" /\ UNCHANGED failed_step
    /\ UNCHANGED <<cfg, input, parsed, repo, world, backed_up_files, info, previous_branch,
                   temporary_branch, pos, log, applied, pre>>

\* 43-78: read the configuration; a file that cannot be read offers `patchy init`
ReadConfig ==
    /\ pc = "read_config"
    /\ LET config_raw == read_to_string(dir, ConfigFile, {}) IN
       IF ~config_raw.ok
       THEN \E y \in BOOLEAN, run_init \in BOOLEAN, overwrite \in BOOLEAN,
               f \in {{}, {"create"}} :
              /\ Budget(f)
              /\ y => ~run_init
              /\ ~run_init => f = {}
              /\ (~run_init \/ ConfigFile \notin DOMAIN dir) => overwrite
              /\ yes' = (IF y THEN "yes" ELSE "no")
              /\ faults' = faults + Cardinality(f)
              /\ LET asked == IF y THEN <<>>
                              ELSE IF run_init /\ ConfigFile \in DOMAIN dir
                              THEN <<run_init, overwrite>>
                              ELSE <<run_init>>
                     i == IF run_init THEN init(dir, overwrite, f) ELSE Ok(dir)
                 IN /\ answered' = answered \o asked
                    /\ prompts' = prompts + Len(asked)
                    /\ dir' = i.r
                    /\ IF i.ok THEN pc' = "Done" /\ UNCHANGED failed_step
                       ELSE Abort("init")
       ELSE /\ UNCHANGED <<yes, prompts, dir, faults, answered>>
            /\ IF cfg.repo = ""
               THEN Abort("repo")
               ELSE pc' = "backup" /\ UNCHANGED failed_step
    /\ UNCHANGED <<cfg, input, parsed, repo, world, backed_up_files, info, previous_branch,
                   temporary_branch, pos, log, applied, pre>>

\* 80-113: back up the config directory
Backup ==
    /\ pc = "backup"
    /\ \E f \in {{}, {"read"}} :
         /\ Budget(f)
         /\ faults' = faults + Cardinality(f)
         /\ LET b == backup_files(read_dir(dir), dir, f) IN
            IF b.ok
            THEN backed_up_files' = b.val /\ pc' = "fetch_base" /\ UNCHANGED failed_step
            ELSE Abort("backup") /\ UNCHANGED backed_up_files
    /\ UNCHANGED <<yes, cfg, input, parsed, repo, dir, world, info, previous_branch, temporary_branch,
                   pos, log, applied, prompts, pre, answered>>

\* 115-126: name and fetch the base working branch
FetchBaseFaults == {{}, {"remote_add"}, {"fetch"}, {"pin"}}
FetchBase ==
    /\ pc = "fetch_base"
    /\ \E u1 \in FirstUuids, u2 \in FirstUuids, f \in FetchBaseFaults :
         /\ Budget(f)
         /\ "pin" \in f => cfg.remote_branch.commit /= None
         /\ faults' = faults + Cardinality(f)
         /\ LET i == [upstream_branch_name |-> cfg.remote_branch.name,
                      local_branch_name |-> with_uuid(u1, cfg.remote_branch.name),
                      local_remote_alias |-> with_uuid(u2, cfg.repo)]
                a == add_remote_branch(repo, i, cfg.remote_branch.commit,
                                       UpstreamHead(cfg.remote_branch.name), f)
            IN /\ info' = i
               /\ repo' = a.r
               /\ IF a.ok THEN pc' = "checkout" /\ UNCHANGED failed_step
                  ELSE Abort(a.err)
    /\ UNCHANGED <<yes, cfg, input, parsed, dir, world, backed_up_files, previous_branch,
                   temporary_branch, pos, log, applied, prompts, pre, answered>>

\* 128-131: the commands of the checkout step that can fail
CheckoutFaults == {{}, {"rev_parse"}, {"checkout"}, {"checkout", "branch_delete"},
                   {"checkout", "remote_remove"}}

\* 128-131: check the working branch out
Checkout ==
    /\ pc = "checkout"
    /\ \E f \in CheckoutFaults :
         /\ Budget(f)
         /\ faults' = faults + Cardinality(f)
         /\ LET blocked == IF CheckoutBlocked(dir, world) THEN {"checkout"} ELSE {}
                c == checkout_from_remote(repo, info.local_branch_name,
                                          info.local_remote_alias, f \cup blocked)
            IN /\ repo' = c.r
               /\ IF c.ok
                  THEN /\ previous_branch' = c.val
                       /\ dir' = CheckoutDir(dir, world)
                       /\ pc' = AfterItems("checkout", 0)
                       /\ UNCHANGED failed_step
                  ELSE /\ Abort(c.err)
                       /\ UNCHANGED <<previous_branch, dir>>
    /\ pos' = 1
    /\ UNCHANGED <<yes, cfg, input, parsed, world, backed_up_files, info, temporary_branch, log,
                   applied, prompts, pre, answered>>

ItemFaults == {{}, {"http"}, {"remote_add"}, {"fetch"}, {"pin"}, {"merge"},
               {"merge", "reset"}, {"commit"}, {"branch_delete"}, {"remote_remove"}}

\* the pull request loop with `?` on the fetch and on the merge: a failing
\* pull request ends the run
ProcessPullRequestOrFail ==
    /\ pc = "pull_requests"
    /\ \E u \in FirstUuids, f \in ItemFaults :
         /\ Budget(f)
         /\ "pin" \in f => cfg.pull_requests[pos].commit /= None
         /\ faults' = faults + Cardinality(f)
         /\ LET e == cfg.pull_requests[pos]
                ft == fetch_pull_request(repo, cfg.repo, e.number, e.commit, u, f)
                mg == IF ft.ok THEN merge_pull_request(ft.r, ft.val, f) ELSE ft
            IN /\ repo' = mg.r
               /\ log' = Append(log, [kind |-> "pr", entry |-> e, f |-> f, called |-> TRUE,
                                      remote_branch |-> ft.val, fetched |-> ft.ok,
                                      err |-> mg.err, success |-> mg.ok, fail |-> ~mg.ok,
                                      cleanup_warning |-> FALSE])
               /\ IF mg.ok
                  THEN pc' = AfterItems("pull_requests", pos) /\ UNCHANGED failed_step
                  ELSE Abort(mg.err)
    /\ pos' = IF pos < Len(cfg.pull_requests) THEN pos + 1 ELSE 1
    /\ UNCHANGED <<yes, cfg, input, parsed, dir, world, backed_up_files, info, previous_branch,
                   temporary_branch, applied, prompts, pre, answered>>

\* the pull request loop walking the list from its end
ProcessPullRequestReversed ==
    /\ pc = "pull_requests"
    /\ \E u \in FirstUuids, f \in ItemFaults :
         /\ Budget(f)
         /\ "pin" \in f => cfg.pull_requests[Len(cfg.pull_requests) + 1 - pos].commit /= None
         /\ faults' = faults + Cardinality(f)
         /\ LET e == cfg.pull_requests[Len(cfg.pull_requests) + 1 - pos]
                ft == fetch_pull_request(repo, cfg.repo, e.number, e.commit, u, f)
                mg == IF ft.ok THEN merge_pull_request(ft.r, ft.val, f) ELSE ft
            IN /\ repo' = mg.r
               /\ log' = Append(log, [kind |-> "pr", entry |-> e, f |-> f, called |-> TRUE,
                                      remote_branch |-> ft.val, fetched |-> ft.ok,
                                      err |-> mg.err, success |-> mg.ok, fail |-> ~mg.ok,
                                      cleanup_warning |-> FALSE])
    /\ pos' = IF pos < Len(cfg.pull_requests) THEN pos + 1 ELSE 1
    /\ pc' = AfterItems("pull_requests", pos)
    /\ UNCHANGED <<yes, cfg, input, parsed, dir, world, backed_up_files, info, previous_branch,
                   temporary_branch, applied, failed_step, prompts, pre, answered>>

\* 150-193: one pull request: fetch, merge, report
ProcessPullRequest ==
    /\ pc = "pull_requests"
    /\ \E u \in FirstUuids, f \in ItemFaults :
         /\ Budget(f)
         /\ "pin" \in f => cfg.pull_requests[pos].commit /= None
         /\ faults' = faults + Cardinality(f)
         /\ LET e == cfg.pull_requests[pos]
                ft == fetch_pull_request(repo, cfg.repo, e.number, e.commit, u, f)
                mg == IF ft.ok THEN merge_pull_request(ft.r, ft.val, f) ELSE ft
            IN /\ repo' = mg.r
               /\ log' = Append(log, [kind |-> "pr", entry |-> e, f |-> f, called |-> TRUE,
                                      remote_branch |-> ft.val, fetched |-> ft.ok,
                                      err |-> mg.err, success |-> mg.ok, fail |-> ~mg.ok,
                                      cleanup_warning |-> FALSE])
    /\ pos' = IF pos < Len(cfg.pull_requests) THEN pos + 1 ELSE 1
    /\ pc' = AfterItems("pull_requests", pos)
    /\ UNCHANGED <<yes, cfg, input, parsed, dir, world, backed_up_files, info, previous_branch,
                   temporary_branch, applied, failed_step, prompts, pre, answered>>

RECURSIVE join(_)
join(parts) ==
    IF Len(parts) = 1 THEN parts[1] ELSE parts[1] \o "/" \o join(Tail(parts))

\* 198-263: one branch: parse, fetch, merge, report, clean up
ProcessBranch ==
    /\ pc = "branches"
    /\ \E u \in Uuids, f \in ItemFaults :
         /\ Budget(f)
         /\ "pin" \in f => cfg.branches[pos].commit /= None
         /\ faults' = faults + Cardinality(f)
         /\ LET e == cfg.branches[pos] IN
            IF Len(e.parts) < 3
            THEN /\ f = {}
                 /\ log' = Append(log, [kind |-> "branch", entry |-> e, f |-> f,
                                        called |-> FALSE, remote_branch |-> None,
                                        fetched |-> FALSE, err |-> "format",
                                        success |-> FALSE, fail |-> TRUE,
                                        cleanup_warning |-> FALSE])
                 /\ UNCHANGED repo
            ELSE LET remote == [owner |-> e.parts[1], repo |-> e.parts[2],
                                branch |-> join(SubSeq(e.parts, 3, Len(e.parts))),
                                commit |-> e.commit]
                     ft == fetch_branch(repo, remote, u, f)
                     mg == IF ft.ok
                           THEN merge_into_main(ft.r, ft.val.local_branch_name, f)
                           ELSE ft
                     cl == IF mg.ok
                           THEN delete_remote_and_branch(mg.r, ft.val.local_remote_alias,
                                                         ft.val.local_branch_name, f)
                           ELSE mg
                 IN /\ repo' = cl.r
                    /\ log' = Append(log, [kind |-> "branch", entry |-> e, f |-> f,
                                           called |-> TRUE, remote_branch |-> ft.val,
                                           fetched |-> ft.ok, err |-> cl.err,
                                           success |-> mg.ok, fail |-> ~mg.ok,
                                           cleanup_warning |-> mg.ok /\ ~cl.ok])
    /\ pos' = IF pos < Len(cfg.branches) THEN pos + 1 ELSE 1
    /\ pc' = AfterItems("branches", pos)
    /\ UNCHANGED <<yes, cfg, input, parsed, dir, world, backed_up_files, info, previous_branch,
                   temporary_branch, applied, failed_step, prompts, pre, answered>>

AfterPatches(k) == IF k < Len(cfg.patches) THEN "patches" ELSE "commit"

\* 267-276: recreate the config directory, or roll back
CreateDirFaults == {{}, {"mkdir"}, {"mkdir", "checkout"}, {"mkdir", "branch_delete"},
                    {"mkdir", "remote_remove"}}
CreateDir ==
    /\ pc = "create_dir"
    /\ \E f \in CreateDirFaults :
         /\ Budget(f)
         /\ faults' = faults + Cardinality(f)
         /\ IF "mkdir" \notin f
            THEN pc' = "restore" /\ UNCHANGED <<repo, dir, failed_step>>
            ELSE LET co == git_checkout(repo, previous_branch, f) IN
                 IF ~co.ok
                 THEN Abort("checkout") /\ UNCHANGED <<repo, dir>>
                 ELSE LET d == delete_remote_and_branch(co.r, info.local_remote_alias,
                                                        info.local_branch_name, f)
                      IN /\ repo' = d.r
                         /\ dir' = IF previous_branch = Detached THEN dir
                                    ELSE CheckoutBackDir(dir, world, pre.dir)
                         /\ Abort(IF d.ok THEN "mkdir" ELSE d.err)
    /\ UNCHANGED <<yes, cfg, input, parsed, world, backed_up_files, info, previous_branch,
                   temporary_branch, pos, log, applied, prompts, pre, answered>>

\* the restore with its error printed and not returned: the patches are
\* applied whether the backed up files were written or not
RestoreAndGoOn ==
    /\ pc = "restore"
    /\ \E fail_at \in 0..Len(backed_up_files), kind \in {"create", "write"} :
         /\ fail_at = 0 => kind = "create"
         /\ Budget(IF fail_at = 0 THEN {} ELSE {"restore"})
         /\ faults' = faults + (IF fail_at = 0 THEN 0 ELSE 1)
         /\ LET rs == restore_files(backed_up_files, dir, 1, fail_at, kind) IN
            /\ dir' = rs.r
            /\ pc' = AfterPatches(0)
    /\ pos' = 1
    /\ UNCHANGED <<yes, cfg, input, parsed, repo, world, backed_up_files, info, previous_branch,
                   temporary_branch, log, applied, prompts, pre, answered, failed_step>>

\* 278-284: restore the backed up files
Restore ==
    /\ pc = "restore"
    /\ \E fail_at \in 0..Len(backed_up_files), kind \in {"create", "write"} :
         /\ fail_at = 0 => kind = "create"
         /\ Budget(IF fail_at = 0 THEN {} ELSE {"restore"})
         /\ faults' = faults + (IF fail_at = 0 THEN 0 ELSE 1)
         /\ LET rs == restore_files(backed_up_files, dir, 1, fail_at, kind) IN
            /\ dir' = rs.r
            /\ IF rs.ok THEN pc' = AfterPatches(0) /\ UNCHANGED failed_step
               ELSE Abort("restore")
    /\ pos' = 1
    /\ UNCHANGED <<yes, cfg, input, parsed, repo, world, backed_up_files, info, previous_branch,
                   temporary_branch, log, applied, prompts, pre, answered>>

\* the patch loop with a failing patch printed and skipped like a missing one
ApplyPatchAndGoOn ==
    /\ pc = "patches"
    /\ LET patch == cfg.patches[pos]
           file_name == patch \o ".patch"
       IN IF file_name \notin DOMAIN dir
          THEN /\ applied' = Append(applied, [patch |-> patch, outcome |-> "missing"])
               /\ pc' = AfterPatches(pos)
               /\ UNCHANGED failed_step
               /\ pos' = pos + 1
               /\ UNCHANGED <<repo, faults>>
          ELSE \E f \in {{}, {"am"}, {"am", "am_abort"}, {"log"}} :
                 /\ Budget(f)
                 /\ faults' = faults + Cardinality(f)
                 /\ LET a == git_am(repo, patch, f) IN
                    IF a.ok
                    THEN /\ repo' = a.r
                         /\ applied' = Append(applied, [patch |-> patch, outcome |-> "applied"])
                         /\ pos' = pos + 1
                         /\ IF "log" \in f THEN Abort("log")
                            ELSE pc' = AfterPatches(pos) /\ UNCHANGED failed_step
                    ELSE LET ab == git_am_abort(a.r, f) IN
                         /\ repo' = ab.r
                         /\ applied' = Append(applied, [patch |-> patch, outcome |-> "failed"])
                         /\ pc' = AfterPatches(pos)
                         /\ pos' = pos + 1
                         /\ UNCHANGED failed_step
    /\ UNCHANGED <<yes, cfg, input, parsed, dir, world, backed_up_files, info, previous_branch,
                   temporary_branch, log, prompts, pre, answered>>

\* the patch loop without the `git am --abort` of line 297
ApplyPatchNoAbort ==
    /\ pc = "patches"
    /\ LET patch == cfg.patches[pos]
           file_name == patch \o ".patch"
       IN IF file_name \notin DOMAIN dir
          THEN /\ applied' = Append(applied, [patch |-> patch, outcome |-> "missing"])
               /\ pc' = AfterPatches(pos)
               /\ UNCHANGED failed_step
               /\ pos' = pos + 1
               /\ UNCHANGED <<repo, faults>>
          ELSE \E f \in {{}, {"am"}, {"am", "am_abort"}, {"log"}} :
                 /\ Budget(f)
                 /\ faults' = faults + Cardinality(f)
                 /\ LET a == git_am(repo, patch, f) IN
                    IF a.ok
                    THEN /\ repo' = a.r
                         /\ applied' = Append(applied, [patch |-> patch, outcome |-> "applied"])
                         /\ pos' = pos + 1
                         /\ IF "log" \in f THEN Abort("log")
                            ELSE pc' = AfterPatches(pos) /\ UNCHANGED failed_step
                    ELSE /\ repo' = a.r
                         /\ applied' = Append(applied, [patch |-> patch, outcome |-> "failed"])
                         /\ Abort("am")
                         /\ UNCHANGED pos
    /\ UNCHANGED <<yes, cfg, input, parsed, dir, world, backed_up_files, info, previous_branch,
                   temporary_branch, log, prompts, pre, answered>>

\* the patch loop with a missing patch file returned as an error
ApplyPatchOrFail ==
    /\ pc = "patches"
    /\ LET patch == cfg.patches[pos]
           file_name == patch \o ".patch"
       IN IF file_name \notin DOMAIN dir
          THEN /\ applied' = Append(applied, [patch |-> patch, outcome |-> "missing"])
               /\ Abort("am")
               /\ pos' = pos + 1
               /\ UNCHANGED <<repo, faults>>
          ELSE \E f \in {{}, {"am"}, {"am", "am_abort"}, {"log"}} :
                 /\ Budget(f)
                 /\ faults' = faults + Cardinality(f)
                 /\ LET a == git_am(repo, patch, f) IN
                    IF a.ok
                    THEN /\ repo' = a.r
                         /\ applied' = Append(applied, [patch |-> patch, outcome |-> "applied"])
                         /\ pos' = pos + 1
                         /\ IF "log" \in f THEN Abort("log")
                            ELSE pc' = AfterPatches(pos) /\ UNCHANGED failed_step
                    ELSE LET ab == git_am_abort(a.r, f) IN
                         /\ repo' = ab.r
                         /\ applied' = Append(applied, [patch |-> patch, outcome |-> "failed"])
                         /\ Abort(IF ab.ok THEN "am" ELSE "am_abort")
                         /\ UNCHANGED pos
    /\ UNCHANGED <<yes, cfg, input, parsed, dir, world, backed_up_files, info, previous_branch,
                   temporary_branch, log, prompts, pre, answered>>

\* 287-311: one patch: skip it when its file is missing, apply it, or abort
ApplyPatch ==
    /\ pc = "patches"
    /\ LET patch == cfg.patches[pos]
           file_name == patch \o ".patch"
       IN IF file_name \notin DOMAIN dir
          THEN /\ applied' = Append(applied, [patch |-> patch, outcome |-> "missing"])
               /\ pc' = AfterPatches(pos)
               /\ pos' = pos + 1
               /\ UNCHANGED <<repo, faults, failed_step>>
          ELSE \E f \in {{}, {"am"}, {"am", "am_abort"}, {"log"}} :
                 /\ Budget(f)
                 /\ faults' = faults + Cardinality(f)
                 /\ LET a == git_am(repo, patch, f) IN
                    IF a.ok
                    THEN /\ repo' = a.r
                         /\ applied' = Append(applied, [patch |-> patch, outcome |-> "applied"])
                         /\ pos' = pos + 1
                         /\ IF "log" \in f THEN Abort("log")
                            ELSE pc' = AfterPatches(pos) /\ UNCHANGED failed_step
                    ELSE LET ab == git_am_abort(a.r, f) IN
                         /\ repo' = ab.r
                         /\ applied' = Append(applied, [patch |-> patch, outcome |-> "failed"])
                         /\ Abort(IF ab.ok THEN "am" ELSE "am_abort")
                         /\ UNCHANGED pos
    /\ UNCHANGED <<yes, cfg, input, parsed, dir, world, backed_up_files, info, previous_branch,
                   temporary_branch, log, prompts, pre, answered>>

\* 313-318: stage and commit the config directory
CommitConfig ==
    /\ pc = "commit"
    /\ \E f \in {{}, {"add"}, {"commit"}} :
         /\ Budget(f)
         /\ faults' = faults + Cardinality(f)
         /\ LET a == git_add(repo, dir /= world.upstream_dir, f)
                c == IF a.ok THEN git_commit(a.r, f) ELSE a
            IN /\ repo' = c.r
               /\ IF c.ok THEN pc' = "temp_branch" /\ UNCHANGED failed_step
                  ELSE Abort(c.err)
    /\ UNCHANGED <<yes, cfg, input, parsed, dir, world, backed_up_files, info, previous_branch,
                   temporary_branch, pos, log, applied, prompts, pre, answered>>

\* 320-322: create the temp branch from the current state
CreateTemp ==
    /\ pc = "temp_branch"
    /\ \E u \in FirstUuids, f \in {{}, {"switch"}} :
         /\ Budget(f)
         /\ faults' = faults + Cardinality(f)
         /\ temporary_branch' = with_uuid(u, "temp-branch")
         /\ LET sw == git_switch_create(repo, temporary_branch', f) IN
            /\ repo' = sw.r
            /\ IF sw.ok THEN pc' = "cleanup" /\ UNCHANGED failed_step
               ELSE Abort("switch")
    /\ UNCHANGED <<yes, cfg, input, parsed, dir, world, backed_up_files, info, previous_branch,
                   pos, log, applied, prompts, pre, answered>>

\* the clean-up in a retry loop: the deletion of the base remote and branch
\* is repeated until it succeeds
CleanupRetrying ==
    /\ pc = "cleanup"
    /\ \E f \in {{}, {"branch_delete"}, {"remote_remove"}} :
         /\ Budget(f)
         /\ faults' = faults + Cardinality(f)
         /\ LET d == delete_remote_and_branch(repo, info.local_remote_alias,
                                              info.local_branch_name, f)
            IN /\ repo' = d.r
               /\ pc' = IF d.ok THEN "overwrite" ELSE "cleanup"
    /\ UNCHANGED <<yes, cfg, input, parsed, dir, world, backed_up_files, info, previous_branch,
                   temporary_branch, pos, log, applied, prompts, pre, answered,
                   failed_step>>

\* 324-327: delete the base remote and branch
Cleanup ==
    /\ pc = "cleanup"
    /\ \E f \in {{}, {"branch_delete"}, {"remote_remove"}} :
         /\ Budget(f)
         /\ faults' = faults + Cardinality(f)
         /\ LET d == delete_remote_and_branch(repo, info.local_remote_alias,
                                              info.local_branch_name, f)
            IN /\ repo' = d.r
               /\ IF d.ok THEN pc' = "overwrite" /\ UNCHANGED failed_step
                  ELSE Abort(d.err)
    /\ UNCHANGED <<yes, cfg, input, parsed, dir, world, backed_up_files, info, previous_branch,
                   temporary_branch, pos, log, applied, prompts, pre, answered>>

\* the overwrite done with `git branch --force <local_branch> <temp>`, which
\* copies the temp branch and leaves it in place
OverwriteByCopy ==
    /\ pc = "overwrite"
    /\ \E y \in BOOLEAN, answer \in BOOLEAN, f \in {{}, {"rename"}} :
         /\ Budget(f)
         /\ y => answer
         /\ ~answer => f = {}
         /\ yes' = (IF y THEN "yes" ELSE "no")
         /\ faults' = faults + Cardinality(f)
         /\ prompts' = IF y THEN prompts ELSE prompts + 1
         /\ answered' = IF y THEN answered ELSE Append(answered, answer)
         /\ IF y \/ answer
            THEN LET cp == IF "rename" \in f THEN Err(repo, "rename")
                           ELSE Ok([repo EXCEPT !.branches =
                                      With(@, cfg.local_branch, @[temporary_branch])])
                 IN /\ repo' = cp.r
                    /\ IF cp.ok THEN pc' = "Done" /\ UNCHANGED failed_step
                       ELSE Abort("rename")
            ELSE pc' = "Done" /\ UNCHANGED <<repo, failed_step>>
    /\ UNCHANGED <<cfg, input, parsed, dir, world, backed_up_files, info, previous_branch,
                   temporary_branch, pos, log, applied, pre>>

\* the overwrite with the prompt shown whatever the yes flag says
OverwriteAsking ==
    /\ pc = "overwrite"
    /\ \E y \in BOOLEAN, answer \in BOOLEAN, f \in {{}, {"rename"}} :
         /\ Budget(f)
         /\ y => answer
         /\ ~answer => f = {}
         /\ yes' = (IF y THEN "yes" ELSE "no")
         /\ faults' = faults + Cardinality(f)
         /\ prompts' = prompts + 1
         /\ answered' = Append(answered, answer)
         /\ IF y \/ answer
            THEN LET mv == git_branch_move_force(repo, temporary_branch, cfg.local_branch, f)
                 IN /\ repo' = mv.r
                    /\ IF mv.ok THEN pc' = "Done" /\ UNCHANGED failed_step
                       ELSE Abort("rename")
            ELSE pc' = "Done" /\ UNCHANGED <<repo, failed_step>>
    /\ UNCHANGED <<cfg, input, parsed, dir, world, backed_up_files, info, previous_branch,
                   temporary_branch, pos, log, applied, pre>>

\* 329-363: overwrite local_branch, after a prompt unless --yes
Overwrite ==
    /\ pc = "overwrite"
    /\ \E y \in BOOLEAN, answer \in BOOLEAN, f \in {{}, {"rename"}} :
         /\ Budget(f)
         /\ y => answer
         /\ ~answer => f = {}
         /\ yes' = (IF y THEN "yes" ELSE "no")
         /\ faults' = faults + Cardinality(f)
         /\ prompts' = IF y THEN prompts ELSE prompts + 1
         /\ answered' = IF y THEN answered ELSE Append(answered, answer)
         /\ IF y \/ answer
            THEN LET mv == git_branch_move_force(repo, temporary_branch, cfg.local_branch, f)
                 IN /\ repo' = mv.r
                    /\ IF mv.ok THEN pc' = "Done" /\ UNCHANGED failed_step
                       ELSE Abort("rename")
            ELSE pc' = "Done" /\ UNCHANGED <<repo, failed_step>>
    /\ UNCHANGED <<cfg, input, parsed, dir, world, backed_up_files, info, previous_branch,
                   temporary_branch, pos, log, applied, pre>>

Next ==
    \/ ReadConfig
    \/ Backup
    \/ FetchBase
    \/ Checkout
    \/ ProcessPullRequest
    \/ ProcessBranch
    \/ CreateDir
    \/ Restore
    \/ ApplyPatch
    \/ CommitConfig
    \/ CreateTemp
    \/ Cleanup
    \/ Overwrite

Spec == Init /\ [][Next]_vars

\* the statement run is at inside the loops over the pull requests and over
\* the branches
position == <<pc, pos>>

\* one of the two loops goes on: to its next element, or to the step after it
NextItem ==
    /\ pc \in {"pull_requests", "branches"}
    /\ pc' \in {"pull_requests", "branches", "create_dir", "Aborted"}
    /\ pos' \in 1..MaxPRs

\* run is one thread that executes its statements one after the other, and
\* every git command, request and prompt returns: as long as run has not
\* returned, the statement it is at is executed
LiveSpec ==
    /\ Init /\ [][Next]_vars
    /\ WF_vars(ReadConfig) /\ WF_vars(Backup) /\ WF_vars(FetchBase)
    /\ WF_vars(Checkout) /\ WF_position(NextItem) /\ WF_vars(CreateDir)
    /\ WF_vars(Restore) /\ WF_vars(ApplyPatch) /\ WF_vars(CommitConfig)
    /\ WF_vars(CreateTemp) /\ WF_vars(Cleanup) /\ WF_vars(Overwrite)

(***************************************************************************)
(* Parsing of the entries of the config: `<item> @ <commit>`.  A text is   *)
(* the sequence of its characters.                                         *)
(***************************************************************************)
\* the characters of the texts tried: the two of the separator, a
\* hexadecimal digit and a letter that is none
Chars == {" ", "@", "a", "g"}
Texts == UNION {[1..n -> Chars] : n \in 0..MaxLen}

Sep == <<" ", "@", " ">>

\* Option: None is <<>>, Some(x) is <<x>>
Some(x) == <<x>>

\* char::is_ascii_hexdigit
is_ascii_hexdigit(ch) ==
    ch \in {"0", "1", "2", "3", "4", "5", "6", "7", "8", "9",
            "a", "b", "c", "d", "e", "f", "A", "B", "C", "D", "E", "F"}

\* a validation that lets every character pass
is_valid_commit_hash_any(hash) == TRUE

\* commit.rs 18-20
is_valid_commit_hash(hash) == \A i \in 1..Len(hash) : is_ascii_hexdigit(hash[i])

\* commit.rs 9-13, 22-29: Commit::from_str(...).ok(): not_empty, then the
\* predicate
parse_commit(s) ==
    IF s = <<>> THEN <<>>
    ELSE IF ~is_valid_commit_hash(s) THEN <<>>
    ELSE Some(s)

\* str::split: the parts between the matches of pat, found from the left and
\* not overlapping; `from` is where the running part starts, i where the next
\* match is looked for
RECURSIVE split_from(_, _, _, _)
split_from(s, pat, from, i) ==
    IF i + Len(pat) - 1 > Len(s)
    THEN <<SubSeq(s, from, Len(s))>>
    ELSE IF SubSeq(s, i, i + Len(pat) - 1) = pat
    THEN <<SubSeq(s, from, i - 1)>> \o split_from(s, pat, i + Len(pat), i + Len(pat))
    ELSE split_from(s, pat, from, i + 1)

\* a split at every `@`, whatever surrounds it
split_on_at(s, pat) == split_from(s, <<"@">>, 1, 1)

split(s, pat) == split_from(s, pat, 1, 1)

\* the parts collected into one String
RECURSIVE collect(_)
collect(parts) ==
    IF parts = <<>> THEN <<>> ELSE Head(parts) \o collect(Tail(parts))

\* run.rs 19-34
parse_if_maybe_hash(text, syntax) ==
    LET parts == split(text, syntax)
        len == Len(parts)
    IN IF len = 1
       THEN [item |-> text, commit |-> <<>>]
       ELSE [item |-> collect(SubSeq(parts, 1, len - 1)),
             commit |-> parse_commit(parts[len])]

\* config.rs 177-211
Ref_from_str(s) ==
    LET parts == split(s, Sep)
        len == Len(parts)
    IN IF len = 1
       THEN [item |-> s, commit |-> <<>>]
       ELSE LET head == collect(SubSeq(parts, 1, len - 1))
                commit == parse_commit(parts[len])
            IN [item |-> head, commit |-> commit]

\* an entry of the config is to be parsed; run is not started
ParseInit ==
    /\ input \in Texts
    /\ parsed = <<>>
    /\ pc = "read_config"
    /\ yes = None
    /\ cfg = [local_branch |-> LocalBranch, repo |-> RepoName,
              remote_branch |-> [name |-> RemoteBranchName, commit |-> None],
              pull_requests |-> <<>>, branches |-> <<>>, patches |-> <<>>]
    /\ world = [tracked |-> TRUE, upstream_dir |-> EmptyDir]
    /\ dir = EmptyDir
    /\ repo = [remotes |-> {"origin"}, branches |-> [b \in {LocalBranch} |-> <<{"user"}>>],
               head |-> LocalBranch, index |-> "clean", staged |-> {}, am |-> FALSE]
    /\ backed_up_files = <<>>
    /\ info = NoInfo
    /\ previous_branch = None
    /\ temporary_branch = None
    /\ pos = 1
    /\ log = <<>>
    /\ applied = <<>>
    /\ failed_step = None
    /\ faults = 0
    /\ prompts = 0
    /\ pre = [remotes |-> repo.remotes, branches |-> repo.branches, head |-> repo.head,
              dir |-> dir]
    /\ answered = <<>>

\* run.rs 68, 152, 199: an entry is parsed by parse_if_maybe_hash
ParseEntry ==
    /\ parsed = <<>>
    /\ parsed' = <<parse_if_maybe_hash(input, Sep)>>
    /\ UNCHANGED <<pc, yes, cfg, repo, dir, world, backed_up_files, info,
                   previous_branch, temporary_branch, pos, log, applied,
                   failed_step, faults, prompts, pre, answered, input>>

\* config.rs 75, 130: an entry is parsed as a Ref
ParseRef ==
    /\ parsed = <<>>
    /\ parsed' = <<Ref_from_str(input)>>
    /\ UNCHANGED <<pc, yes, cfg, repo, dir, world, backed_up_files, info,
                   previous_branch, temporary_branch, pos, log, applied,
                   failed_step, faults, prompts, pre, answered, input>>

ParseNext ==
    \/ ParseEntry
    \/ ParseRef

ParseSpec == ParseInit /\ [][ParseNext]_vars

(***************************************************************************)
(* Properties                                                              *)
(***************************************************************************)
\* the run went through every step up to the overwrite
FullRun == pc = "Done" /\ backed_up_files /= <<>>

\* the commit an item's fetch brings: the pinned commit, or the upstream head
ItemCommit(l) ==
    IF l.entry.commit /= None THEN <<{l.entry.commit}>>
    ELSE IF l.kind = "pr" THEN PrHead(l.entry.number)
    ELSE UpstreamHead(join(SubSeq(l.entry.parts, 3, Len(l.entry.parts))))

\* C1: in every state before the final force-rename, and in every state of a
\* run that ended with an error, the ref of local_branch exists and has the
\* value it had before the run.
C1_LocalBranchKeepsItsValue ==
    pc /= "Done" =>
        /\ cfg.local_branch \in DOMAIN repo.branches
        /\ repo.branches[cfg.local_branch] = pre.branches[cfg.local_branch]

\* Desired names the allocator is asked about: the names run asks for, a
\* name that is itself a numbered variant, and names of other branches.
ProbeNames == {ToString(k) \o "/" \o PrHeadRef : k \in 1..(MaxPRs + 1)}
              \cup {"2-1/" \o PrHeadRef, "dev", LocalBranch, with_uuid("aaaa", "main")}

\* C2: whatever branches exist and whatever name is desired, the name
\* find_first_available_branch returns does not exist as a ref.
C2_AllocatedNameIsFree ==
    \A desired \in ProbeNames :
        ~git_rev_parse_verify(repo, find_first_available_branch(repo, desired).name)

\* a pull request was given a name after two taken names were skipped
C2_Witness ==
    \E k \in DOMAIN log :
        /\ log[k].kind = "pr" /\ log[k].fetched
        /\ log[k].remote_branch.local_branch_name = "3-1/" \o PrHeadRef
        /\ {"1/" \o PrHeadRef, "2-1/" \o PrHeadRef} \subseteq DOMAIN pre.branches

OnlyConflicts ==
    /\ cfg.branches = <<>>
    /\ \A k \in DOMAIN log : log[k].f \subseteq {"merge"}
    /\ faults = Cardinality({k \in DOMAIN log : log[k].f /= {}})

\* C4: when the run reaches Done, whichever pull requests merged and
\* whichever met a conflict, the remotes are those of before the run and the
\* branches are those of before the run plus the temp branch, which is
\* renamed onto local_branch when the overwrite was confirmed.
C4_DoneLeavesNothingBehind ==
    FullRun /\ OnlyConflicts =>
        /\ repo.remotes = pre.remotes
        /\ DOMAIN repo.branches \in
             {DOMAIN pre.branches \cup {cfg.local_branch},
              DOMAIN pre.branches \cup {temporary_branch}}
        /\ yes = "yes" => DOMAIN repo.branches = DOMAIN pre.branches \cup {cfg.local_branch}

\* C5: when the run ends with an error after the base remote and branch were
\* created, the remotes and the branches are those of before the run.
C5_AbortLeavesNothingBehind ==
    pc = "Aborted" /\ info /= NoInfo =>
        /\ repo.remotes = pre.remotes
        /\ DOMAIN repo.branches = DOMAIN pre.branches

\* C6: once merge_pull_request has run for a pull request, with every git
\* command but the squash merge working, the pull request's remote and local
\* branch are gone, whether the merge succeeded or returned an error.
C6_MergePullRequestCleansUp ==
    \A k \in DOMAIN log :
        (/\ log[k].kind = "pr" /\ log[k].fetched
         /\ log[k].f \subseteq {"merge"})
        => /\ log[k].remote_branch.local_remote_alias \notin repo.remotes
           /\ log[k].remote_branch.local_branch_name \notin DOMAIN repo.branches

\* C7: once an item whose `git fetch` failed has been skipped, the remote
\* added for that item is no longer configured.
C7_FailedFetchLeavesNoRemote ==
    \A k \in DOMAIN log :
        (log[k].called /\ ~log[k].fetched /\ log[k].err = "fetch")
        => log[k].remote_branch.local_remote_alias \notin repo.remotes

\* the steps of run after the restore of the backed up files
AfterRestore == {"patches", "commit", "temp_branch", "cleanup", "overwrite"}

C9_MergeIsolation ==
    /\ pc = "create_dir" => Len(log) = Len(cfg.pull_requests) + Len(cfg.branches)
    /\ pc \in {"pull_requests", "branches", "create_dir"} =>
         \A k \in DOMAIN log :
             (log[k].fetched /\ log[k].f = {})
             => /\ log[k].success /\ ~log[k].fail
                /\ Content(ItemCommit(log[k])) \subseteq Content(repo.branches[repo.head])

\* finalization has completed: the config commit is on the checked out branch
FinalizationCompleted ==
    repo.head \in DOMAIN repo.branches /\ "config" \in Content(repo.branches[repo.head])

C11_PatchesInOrderAndFatal ==
    /\ Len(applied) <= Len(cfg.patches)
    /\ \A k \in DOMAIN applied : applied[k].patch = cfg.patches[k]
    /\ pc = "patches" => pos = Len(applied) + 1
    /\ \A k \in DOMAIN applied :
         applied[k].outcome = "failed"
         => k = Len(applied) /\ pc = "Aborted" /\ failed_step \in {"am", "am_abort"}
    /\ (pc \in AfterRestore \ {"patches"} \/ FullRun) => Len(applied) = Len(cfg.patches)

\* the first patch was applied, the second failed, and the run ended there
C11_Witness ==
    /\ Len(cfg.patches) >= 2 /\ Len(applied) = 2
    /\ applied[1].outcome = "applied" /\ applied[2].outcome = "failed"
    /\ pc = "Aborted"
    /\ Label("patch", cfg.patches[1]) \in Content(repo.branches[repo.head])

\* C12: when the apply of a patch fails and its error is what run returns,
\* `git am --abort` has run: the repository is not in the middle of an apply;
\* and no run whose `git am --abort` worked ends in the middle of an apply.
C12_FailedApplyIsAborted ==
    /\ (pc = "Aborted" /\ failed_step = "am") => ~repo.am
    /\ (pc \in {"Done", "Aborted"} /\ failed_step /= "am_abort") => ~repo.am
    /\ (repo.am => pc = "Aborted" /\ failed_step = "am_abort")

\* a patch stopped in the middle of its apply and the run ended after the abort
C12_Witness ==
    /\ pc = "Aborted" /\ failed_step = "am"
    /\ applied /= <<>> /\ applied[Len(applied)].outcome = "failed"
    /\ ~repo.am /\ repo.index = "clean"

\* C13: a patch is skipped exactly when its file is not in the config
\* directory; skipping never ends the run, the patches after it are still
\* attempted, and the run goes on to the overwrite.
C13_MissingPatchIsSkipped ==
    /\ \A k \in DOMAIN applied :
         applied[k].outcome = "missing" <=> (applied[k].patch \o ".patch") \notin DOMAIN dir
    /\ (pc = "Aborted" /\ failed_step \in {"am", "am_abort", "log"})
       => applied /= <<>> /\ applied[Len(applied)].outcome /= "missing"
    /\ \A k \in DOMAIN applied :
         (applied[k].outcome = "missing" /\ k < Len(cfg.patches) /\ pc /= "patches")
         => Len(applied) > k

\* the first patch was missing, the second was applied, the run succeeded
C13_Witness ==
    /\ FullRun
    /\ Len(applied) = 2
    /\ applied[1].outcome = "missing" /\ applied[2].outcome = "applied"
    /\ cfg.local_branch \in DOMAIN repo.branches
    /\ Label("patch", cfg.patches[2]) \in Content(repo.branches[cfg.local_branch])

\* the user was asked whether to overwrite and answered no
Declined == FullRun /\ yes = "no" /\ answered = <<FALSE>>

\* C14: when the user answers no at the overwrite prompt, the run ends
\* without error, local_branch has the commit it had before the run, and the
\* temp branch exists and holds the merged content.
C14_DeclineKeepsLocalBranch ==
    Declined =>
        /\ cfg.local_branch \in DOMAIN repo.branches
        /\ repo.branches[cfg.local_branch] = pre.branches[cfg.local_branch]
        /\ temporary_branch \in DOMAIN repo.branches
        /\ "config" \in Content(repo.branches[temporary_branch])
        /\ \A k \in DOMAIN log :
             log[k].success
             => Content(ItemCommit(log[k])) \subseteq Content(repo.branches[temporary_branch])

C16_AtMostOnePrompt ==
    /\ prompts <= 1
    /\ prompts = 1 =>
         \/ pc \in {"Done", "Aborted"} /\ info = NoInfo /\ log = <<>> /\ applied = <<>>
         \/ /\ pc \in {"Done", "Aborted"} /\ temporary_branch /= None
            /\ Len(log) = Len(cfg.pull_requests) + Len(cfg.branches)
            /\ Len(applied) = Len(cfg.patches)

\* C17: with the yes flag no prompt is shown on any path; the overwrite
\* happens without asking, and with an unreadable configuration file the run
\* returns without running init and without touching the repository.
C17_YesNeverPrompts ==
    yes = "yes" =>
        /\ prompts = 0 /\ answered = <<>>
        /\ pc \in {"Done", "Aborted"}
        /\ (pc = "Done" /\ ~FullRun) =>
             /\ dir = pre.dir
             /\ repo.remotes = pre.remotes /\ repo.branches = pre.branches
             /\ repo.head = pre.head
        /\ FullRun =>
             /\ temporary_branch \notin DOMAIN repo.branches
             /\ cfg.local_branch \in DOMAIN repo.branches
             /\ "config" \in Content(repo.branches[cfg.local_branch])

\* the flag was set and the configuration file was missing
C17_Witness ==
    /\ yes = "yes" /\ pc = "Done" /\ ~FullRun
    /\ ConfigFile \notin DOMAIN dir
    /\ prompts = 0

\* C18: with an empty repo in a readable configuration the run fails at once:
\* nothing is backed up, fetched or checked out, nothing is asked, and the
\* remotes, branches and HEAD are those of before the run.
C18_EmptyRepoFailsFirst ==
    (cfg.repo = "" /\ read_to_string(pre.dir, ConfigFile, {}).ok) =>
        /\ pc \in {"read_config", "Aborted"}
        /\ pc = "Aborted" => failed_step = "repo"
        /\ repo.remotes = pre.remotes /\ repo.branches = pre.branches
        /\ repo.head = pre.head
        /\ info = NoInfo /\ backed_up_files = <<>> /\ dir = pre.dir
        /\ prompts = 0

\* the run ended on the empty repo
C18_Witness ==
    /\ cfg.repo = "" /\ pc = "Aborted" /\ failed_step = "repo"
    /\ repo.remotes = pre.remotes

\* C19: when the checkout of the base working branch fails, the run ends in
\* Aborted with the base remote and branch deleted and the user on the branch
\* that was checked out before the run.
C19_FailedCheckoutRollsBack ==
    (pc = "Aborted" /\ failed_step = "checkout" /\ previous_branch = None) =>
        /\ info /= NoInfo
        /\ repo.remotes = pre.remotes
        /\ repo.branches = pre.branches
        /\ repo.head = pre.head
        /\ dir = pre.dir

\* the checkout of the fetched base branch failed
C19_Witness ==
    /\ pc = "Aborted" /\ failed_step = "checkout" /\ previous_branch = None
    /\ info.local_remote_alias \notin repo.remotes
    /\ info.local_branch_name \notin DOMAIN repo.branches
    /\ log = <<>>

\* C20: a failing deletion of an ephemeral remote or branch never ends the
\* run once the temp branch exists, and never makes a pull request whose
\* fetch and merge succeeded a reported failure.
C20_CleanupFailureIsNotEscalated ==
    /\ (pc = "Aborted" /\ temporary_branch /= None)
       => failed_step \notin {"branch_delete", "remote_remove"}
    /\ \A k \in DOMAIN log :
         (log[k].fetched /\ log[k].f /= {}
          /\ log[k].f \subseteq {"branch_delete", "remote_remove"})
         => log[k].success /\ ~log[k].fail

\* C21: every local branch name and every remote alias the run creates (the
\* base working branch and remote, the branch and remote of each pull request
\* and of each branch item, the temp branch) is a name no branch or remote of
\* the user had before the run, so that no branch or remote of the user is
\* fetched into, overwritten or deleted as if the run had made it.
C21_CreatedNamesAreFresh ==
    /\ info /= NoInfo =>
         /\ info.local_branch_name \notin DOMAIN pre.branches
         /\ info.local_remote_alias \notin pre.remotes
    /\ temporary_branch /= None => temporary_branch \notin DOMAIN pre.branches
    /\ \A k \in DOMAIN log :
         log[k].fetched
         => /\ log[k].remote_branch.local_branch_name \notin DOMAIN pre.branches
            /\ log[k].remote_branch.local_remote_alias \notin pre.remotes

\* C22: when the squash merge of an item fails, the merge resets the index
\* and the worktree and returns the merge's error: right after the item
\* nothing is staged, no conflict is left, HEAD is where it was and the
\* working branch has the commit it had before the attempt; the item is
\* reported as failed.
C22_ConflictLeavesRepositoryClean ==
    [][(Len(log') = Len(log) + 1 /\ log'[Len(log')].err = "merge")
       => (/\ repo'.index = "clean" /\ repo'.staged = {}
           /\ repo'.head = repo.head
           /\ repo'.branches[repo'.head] = repo.branches[repo.head]
           /\ log'[Len(log')].fail /\ ~log'[Len(log')].success)]_vars

\* the second pull request met a conflict after the first one was merged
C22_Witness ==
    /\ Len(log) = 2
    /\ log[1].success
    /\ log[2].fetched /\ log[2].f = {"merge"} /\ log[2].err = "merge"
    /\ repo.index = "clean" /\ repo.staged = {}
    /\ Content(PrHead(1)) \subseteq Content(repo.branches[repo.head])
    /\ ~(Content(PrHead(2)) \subseteq Content(repo.branches[repo.head]))

\* the commit the base working branch is created at: the pinned commit, or
\* the head of the remote branch
BaseCommit ==
    IF cfg.remote_branch.commit /= None THEN <<{cfg.remote_branch.commit}>>
    ELSE UpstreamHead(cfg.remote_branch.name)

\* C23: when the squash merge of an item stages nothing, because the working
\* branch already holds everything the item brings, and no command fails, the
\* item is reported as merged and its remote and branch are cleaned up.
C23_NothingToMergeIsSuccess ==
    \A k \in DOMAIN log :
        (/\ log[k].fetched /\ log[k].f = {}
         /\ Content(ItemCommit(log[k])) \subseteq Content(BaseCommit))
        => /\ log[k].success /\ ~log[k].fail
           /\ log[k].remote_branch.local_remote_alias \notin repo.remotes
           /\ log[k].remote_branch.local_branch_name \notin DOMAIN repo.branches

\* the config directory as the restore finds it: the one of the checked out
\* working branch
DirAtRestore == CheckoutDir(pre.dir, world)

\* C24: when the write of a backed up file fails, the run ends with the
\* restore's error at that file: the files before it are written, the files
\* after it are as the checkout left them, no patch was applied, no config
\* commit and no temp branch was made, and nothing was asked or overwritten.
C24_FailedRestoreStops ==
    (pc = "Aborted" /\ failed_step = "restore") =>
        /\ \E i \in DOMAIN backed_up_files :
             /\ \A j \in 1..(i - 1) :
                  /\ backed_up_files[j].filename \in DOMAIN dir
                  /\ dir[backed_up_files[j].filename] = as_bytes(backed_up_files[j].contents)
             /\ \A j \in (i + 1)..Len(backed_up_files) :
                  LET n == backed_up_files[j].filename IN
                  IF n \in DOMAIN DirAtRestore
                  THEN n \in DOMAIN dir /\ dir[n] = DirAtRestore[n]
                  ELSE n \notin DOMAIN dir
             /\ LET n == backed_up_files[i].filename IN
                \/ n \in DOMAIN dir /\ dir[n] = <<>>
                \/ n \in DOMAIN dir /\ n \in DOMAIN DirAtRestore /\ dir[n] = DirAtRestore[n]
                \/ n \notin DOMAIN dir /\ n \notin DOMAIN DirAtRestore
        /\ applied = <<>>
        /\ temporary_branch = None /\ prompts = 0
        /\ \A b \in DOMAIN repo.branches :
             /\ "config" \notin Content(repo.branches[b])
             /\ \A k \in DOMAIN cfg.patches :
                  Label("patch", cfg.patches[k]) \notin Content(repo.branches[b])

\* the restore failed at the second of three files, with patches configured
C24_Witness ==
    /\ pc = "Aborted" /\ failed_step = "restore"
    /\ Len(backed_up_files) = 3
    /\ backed_up_files[1].filename \in DOMAIN dir
    /\ dir[backed_up_files[1].filename] = pre.dir[backed_up_files[1].filename]
    /\ backed_up_files[3].filename \notin DOMAIN dir
    /\ cfg.patches /= <<>>

\* C25: once run has restored its backup, and at the end of the run, the
\* config directory holds exactly the files it held before the run, names
\* and bytes: no file of the checked out working branch remains in it and
\* none of the user's files is missing or altered.
C25_DirectoryIsAsBefore ==
    (pc \in AfterRestore \/ FullRun) => dir = pre.dir

\* the items of the configuration in the order run takes them: the pull
\* requests as listed, then the branches as listed
ItemsInOrder ==
    [k \in 1..(Len(cfg.pull_requests) + Len(cfg.branches)) |->
        IF k <= Len(cfg.pull_requests)
        THEN [kind |-> "pr", entry |-> cfg.pull_requests[k]]
        ELSE [kind |-> "branch", entry |-> cfg.branches[k - Len(cfg.pull_requests)]]]

\* C26: the items are processed one at a time, every pull request in listed
\* order and then every branch in listed order: what has been processed is
\* always a prefix of that order, and each step of the loop takes exactly the
\* next item, through its fetch, merge and cleanup, before the following one
\* is begun.
C26_ItemsOneAtATimeInOrder ==
    /\ Len(log) <= Len(ItemsInOrder)
    /\ \A k \in DOMAIN log :
         log[k].kind = ItemsInOrder[k].kind /\ log[k].entry = ItemsInOrder[k].entry
    /\ pc = "pull_requests" => Len(log) = pos - 1 /\ pos <= Len(cfg.pull_requests)
    /\ pc = "branches" =>
         Len(log) = Len(cfg.pull_requests) + pos - 1 /\ pos <= Len(cfg.branches)
    /\ pc \in {"create_dir", "restore"} \cup AfterRestore => Len(log) = Len(ItemsInOrder)
    /\ pc \in {"read_config", "backup", "fetch_base", "checkout"} => log = <<>>

\* two pull requests and then a branch were processed, all merged
C26_Witness ==
    /\ pc = "create_dir"
    /\ Len(log) = 3
    /\ log[1].entry.number = 1 /\ log[2].entry.number = 2 /\ log[3].kind = "branch"
    /\ \A k \in DOMAIN log : log[k].success
    /\ Content(PrHead(1)) \subseteq Content(repo.branches[repo.head])
    /\ log[3].remote_branch.local_branch_name \notin DOMAIN repo.branches

\* the commit c holds what the run produced: the config commit, every item
\* that was merged and every patch that was applied
MergedWork(c) ==
    /\ "config" \in Content(c)
    /\ \A k \in DOMAIN log : log[k].success => Content(ItemCommit(log[k])) \subseteq Content(c)
    /\ \A k \in DOMAIN applied :
         applied[k].outcome = "applied" => Label("patch", applied[k].patch) \in Content(c)

\* C27: the temp branch is created from the working branch while the base
\* branch still exists; the base remote and branch are deleted after that;
\* the prompt and the rename come only after the deletion; and from the
\* config commit to the end of the run some branch holds the merged work.
C27_TempThenDeleteThenPrompt ==
    /\ pc = "temp_branch" =>
         /\ temporary_branch = None
         /\ repo.head = info.local_branch_name
    /\ pc = "cleanup" =>
         /\ temporary_branch \in DOMAIN repo.branches /\ repo.head = temporary_branch
         /\ info.local_branch_name \in DOMAIN repo.branches
         /\ repo.branches[temporary_branch] = repo.branches[info.local_branch_name]
         /\ prompts = 0
    /\ pc = "overwrite" =>
         /\ info.local_branch_name \notin DOMAIN repo.branches
         /\ info.local_remote_alias \notin repo.remotes
         /\ temporary_branch \in DOMAIN repo.branches
         /\ prompts = 0 /\ yes = None
    /\ (pc \in {"temp_branch", "cleanup", "overwrite"} \/ FullRun
        \/ (pc = "Aborted" /\ temporary_branch /= None))
       => \E b \in DOMAIN repo.branches : MergedWork(repo.branches[b])

\* the base remote and branch are deleted, the prompt has not been shown, and
\* the temp branch alone holds a merged pull request and an applied patch
C27_Witness ==
    /\ pc = "overwrite"
    /\ \E k \in DOMAIN log : log[k].success
    /\ \E k \in DOMAIN applied : applied[k].outcome = "applied"
    /\ MergedWork(repo.branches[temporary_branch])
    /\ \A b \in DOMAIN repo.branches \ {temporary_branch} : ~MergedWork(repo.branches[b])

\* the run ended in the step that recreates the config directory
CreateDirFailed ==
    /\ pc = "Aborted"
    /\ previous_branch /= None /\ temporary_branch = None
    /\ failed_step \in {"mkdir", "checkout", "branch_delete", "remote_remove"}

\* C28: when recreating the config directory fails, the run rolls back and
\* ends: the branch of before the run is checked out, the base working remote
\* and branch are deleted, and no file was restored, no patch applied,
\* nothing committed and no branch overwritten.
C28_FailedCreateDirRollsBack ==
    CreateDirFailed =>
        /\ repo.head = previous_branch /\ repo.head = pre.head
        /\ info.local_branch_name \notin DOMAIN repo.branches
        /\ info.local_remote_alias \notin repo.remotes
        /\ applied = <<>> /\ prompts = 0
        /\ \A b \in DOMAIN repo.branches : "config" \notin Content(repo.branches[b])

\* C29: when the run ends with a fatal error after the working branch was
\* checked out (the config directory could not be recreated, a backed up
\* file could not be restored, a patch did not apply), the branch that was
\* checked out before the run is checked out again.
C29_FatalErrorRestoresBranch ==
    (/\ pc = "Aborted" /\ previous_branch /= None
     /\ failed_step \in {"mkdir", "restore", "am"})
    => repo.head = previous_branch

\* C30: when `git remote add` fails in the fetch of an item or of the base
\* branch, nothing is fetched, the alias is not left configured, and the
\* error the fetch returns is the failure of the remote add.
C30_RemoteAddFailureIsReturned ==
    /\ \A k \in DOMAIN log :
         "remote_add" \in log[k].f
         => /\ ~log[k].fetched
            /\ log[k].remote_branch.local_remote_alias \notin repo.remotes
            /\ log[k].err = "remote_add"
    /\ (pc = "Aborted" /\ info /= NoInfo /\ previous_branch = None /\ log = <<>>
        /\ failed_step \in {"remote_add", "remote_remove"}
        /\ info.local_remote_alias \notin repo.remotes)
       => /\ info.local_branch_name \notin DOMAIN repo.branches
          /\ failed_step = "remote_add"

\* C31: when an item or the base branch carries a commit pin and its fetch
\* succeeded, the local branch was moved to the pinned commit before the
\* merge: a merged item brings the pinned commit and not the fetched head;
\* and when the pinned commit cannot be found the fetch returns that error
\* and the item is not merged.
C31_PinnedCommitIsMerged ==
    /\ (pc = "checkout" /\ cfg.remote_branch.commit /= None)
       => repo.branches[info.local_branch_name] = <<{cfg.remote_branch.commit}>>
    /\ pc \in {"pull_requests", "branches", "create_dir"} =>
         \A k \in DOMAIN log :
             (log[k].kind = "pr" /\ log[k].entry.commit /= None) =>
                 LET head == Content(repo.branches[repo.head]) IN
                 /\ log[k].success => log[k].entry.commit \in head
                 /\ ("pr" \o ToString(log[k].entry.number)) \notin head
                 /\ "pin" \in log[k].f
                    => /\ ~log[k].fetched /\ log[k].err = "pin" /\ log[k].fail
                       /\ log[k].entry.commit \notin head
    /\ (pc = "Aborted" /\ failed_step = "pin") => previous_branch = None /\ log = <<>>

\* the pull request pinned to a commit was merged at that commit
C31_Witness ==
    /\ pc = "create_dir"
    /\ \E k \in DOMAIN log :
         /\ log[k].kind = "pr" /\ log[k].entry.commit /= None
         /\ log[k].fetched /\ log[k].success
         /\ log[k].entry.commit \in Content(repo.branches[repo.head])
         /\ PrHead(log[k].entry.number) /= <<{log[k].entry.commit}>>

\* the orchestrator state a step of run belongs to
Phase(step) ==
    IF step \in {"read_config", "backup"} THEN "Init"
    ELSE IF step \in {"fetch_base", "checkout"} THEN "Fetching"
    ELSE IF step \in {"pull_requests", "branches"} THEN "MergingItems"
    ELSE IF step \in {"create_dir", "restore", "patches", "commit"} THEN "Finalizing"
    ELSE IF step \in {"temp_branch", "cleanup", "overwrite"} THEN "Overwriting"
    ELSE step

C33_RunTerminates ==
    /\ <>[](pc \in {"Done", "Aborted"})
    /\ [](pc \in {"Done", "Aborted"} => ~ENABLED Next)
    /\ [](Len(log) <= Len(ItemsInOrder) /\ Len(applied) <= Len(cfg.patches))

\* a run with two pull requests, a branch and two patches reached Done with
\* each of them processed once
C33_Witness ==
    /\ FullRun
    /\ Len(cfg.pull_requests) = 2 /\ Len(cfg.branches) = 1 /\ Len(cfg.patches) = 2
    /\ Len(log) = 3 /\ Len(applied) = 2
    /\ ~ENABLED Next

\* the snapshot of the config directory as it was when the run started, and
\* the directory with every file of the snapshot written back
Snapshot == backup_files(read_dir(pre.dir), pre.dir, {}).val
Restored == restore_files(Snapshot, DirAtRestore, 1, 0, "create").r

\* C34: the snapshot is taken while the repository and the directory are as
\* the run found them, before the base is named, fetched or checked out; the
\* directory holds no restored file until every pull request and branch has
\* been processed; and a patch is applied only with every file of the
\* snapshot written back.
C34_SnapshotThenItemsThenRestoreThenPatches ==
    /\ pc \in {"read_config", "backup"} =>
         /\ backed_up_files = <<>> /\ info = NoInfo /\ previous_branch = None
         /\ dir = pre.dir /\ repo.head = pre.head
         /\ repo.branches = pre.branches /\ repo.remotes = pre.remotes
    /\ (pc \in {"fetch_base", "checkout", "pull_requests", "branches", "create_dir",
                "restore", "patches", "commit", "temp_branch", "cleanup", "overwrite"}
        \/ (pc = "Done" /\ info /= NoInfo)) =>
         backed_up_files = Snapshot
    /\ pc \in {"fetch_base", "checkout"} => dir = pre.dir /\ log = <<>>
    /\ pc \in {"pull_requests", "branches", "create_dir", "restore"} =>
         dir = DirAtRestore /\ applied = <<>>
    /\ pc \in {"create_dir", "restore"} => Len(log) = Len(ItemsInOrder)
    /\ (pc \in {"patches", "commit", "temp_branch", "cleanup", "overwrite"}
        \/ (pc = "Done" /\ info /= NoInfo) \/ applied /= <<>>) =>
         /\ dir = Restored
         /\ Len(log) = Len(ItemsInOrder)
         /\ \A k \in DOMAIN Snapshot :
              /\ Snapshot[k].filename \in DOMAIN dir
              /\ dir[Snapshot[k].filename] = as_bytes(Snapshot[k].contents)
    /\ (pc = "Aborted" /\ failed_step = "restore") => applied = <<>>

\* a patch was applied in a run that backed up two files, after items were
\* processed
C34_Witness ==
    /\ \E k \in DOMAIN applied : applied[k].outcome = "applied"
    /\ Len(backed_up_files) = 2
    /\ log /= <<>>
    /\ dir /= DirAtRestore


\* C36: when an item's fetch found its alias already configured (`git remote
\* add` failed with no failure of the environment), the remote that was
\* configured under that alias before the call is still configured after it.
C36_ExistingRemoteSurvives ==
    (/\ pc \in {"pull_requests", "branches", "create_dir"}
     /\ log /= <<>>
     /\ log[Len(log)].called
     /\ log[Len(log)].f = {} /\ log[Len(log)].err = "remote_add")
    => log[Len(log)].remote_branch.local_remote_alias \in repo.remotes

\* C37: whenever run is about to merge an item, to commit the config directory
\* or to apply a patch, and no `git reset --hard` was made to fail, the index
\* of the working branch is clean: nothing of an earlier item is staged.
C37_EveryStepStartsClean ==
    (/\ pc \in {"pull_requests", "branches", "create_dir", "restore", "patches", "commit"}
     /\ \A k \in DOMAIN log : "reset" \notin log[k].f)
    => repo.index = "clean" /\ repo.staged = {}

\* C38: in every step that runs delete_remote_and_branch, the branch it is
\* given is not the one checked out when it runs: the base working branch is
\* not checked out while its checkout is tried, nor after the rollback's
\* `git checkout <previous branch>`, nor at the final clean-up, and a fetched
\* item's branch is not the checked out one.
C38_NeverDeletesTheCheckedOutBranch ==
    [][/\ (pc \in {"checkout", "cleanup"}) => (repo.head /= info.local_branch_name)
       /\ (pc = "create_dir" /\ pc' = "Aborted" /\ failed_step' /= "checkout")
          => (git_checkout(repo, previous_branch, {}).r.head /= info.local_branch_name)
       /\ (pc \in {"pull_requests", "branches"} /\ log'[Len(log')].fetched)
          => (log'[Len(log')].remote_branch.local_branch_name /= repo.head)]_vars

\* the text s holds pat somewhere, ends with it
Contains(s, pat) ==
    \E i \in 1..(Len(s) - Len(pat) + 1) : SubSeq(s, i, i + Len(pat) - 1) = pat
EndsWith(s, pat) ==
    Len(s) >= Len(pat) /\ SubSeq(s, Len(s) - Len(pat) + 1, Len(s)) = pat

\* a non-empty text of hexadecimal digits
IsPin(c) ==
    c /= <<>> /\ \A i \in 1..Len(c) : c[i] \in {"0", "1", "2", "3", "4", "5", "6", "7",
                                                "8", "9", "a", "b", "c", "d", "e", "f",
                                                "A", "B", "C", "D", "E", "F"}

\* the entry is `item @ c` for the item of its first n characters
IsItemAtPin(n, c) ==
    /\ n + Len(Sep) <= Len(input)
    /\ SubSeq(input, n + 1, n + Len(Sep)) = Sep
    /\ c = SubSeq(input, n + Len(Sep) + 1, Len(input))

\* C35 as stated: for every item without ` @ ` and every non-empty
\* hexadecimal c, parsing `item @ c` yields (item, pin c), and parsing an
\* item without ` @ ` yields (item, no pin).
C35_ItemAtPinParses ==
    parsed /= <<>> =>
       /\ ~Contains(input, Sep) => parsed[1] = [item |-> input, commit |-> <<>>]
       /\ \A n \in 0..Len(input) :
            LET item == SubSeq(input, 1, n)
                c == SubSeq(input, n + Len(Sep) + 1, Len(input))
            IN (IsItemAtPin(n, c) /\ ~Contains(item, Sep) /\ IsPin(c))
               => parsed[1] = [item |-> item, commit |-> <<c>>]

\* C35, amended: the same for every item that neither contains ` @ ` nor
\* ends with ` @`.
C35_ItemNotEndingInAtParses ==
    parsed /= <<>> =>
       /\ ~Contains(input, Sep) => parsed[1] = [item |-> input, commit |-> <<>>]
       /\ \A n \in 0..Len(input) :
            LET item == SubSeq(input, 1, n)
                c == SubSeq(input, n + Len(Sep) + 1, Len(input))
            IN (/\ IsItemAtPin(n, c) /\ ~Contains(item, Sep) /\ IsPin(c)
                /\ ~EndsWith(item, <<" ", "@">>))
               => parsed[1] = [item |-> item, commit |-> <<c>>]

\* `g@ @ a` was parsed into the item `g@` and the pin `a`
C35_Witness ==
    /\ input = <<"g", "@", " ", "@", " ", "a">>
    /\ parsed = <<[item |-> <<"g", "@">>, commit |-> <<(<<"a">>)>>]>>

\* C39: a pin that parsing returns is a non-empty text of hexadecimal digits;
\* when the text after the last ` @ ` is no such text, parsing returns a
\* result and not an error, the result has no pin, and for `item @ text` with
\* one ` @ ` its item is the item.
C39_InvalidPinIsDropped ==
    parsed /= <<>> =>
       /\ parsed[1].commit /= <<>> => IsPin(parsed[1].commit[1])
       /\ LET parts == split_from(input, Sep, 1, 1) IN
          /\ (Len(parts) > 1 /\ ~IsPin(parts[Len(parts)])) => parsed[1].commit = <<>>
          /\ (Len(parts) = 2 /\ ~IsPin(parts[2])) =>
               parsed[1] = [item |-> parts[1], commit |-> <<>>]

\* `a @ g` was parsed into the item `a` without a pin
C39_Witness ==
    /\ input = <<"a", " ", "@", " ", "g">>
    /\ parsed = <<[item |-> <<"a">>, commit |-> <<>>]>>

====
